---- MODULE Spec2Model ----
(***************************************************************************)
(* Model of the two analysis programs of pythia-accordion:                 *)
(*   examples/plots.cc  - subruns, dN/dy, mass and delta-y histograms      *)
(*   examples/zplot.cc  - one run, dn/dy, dpT/dy and rank-wise z+          *)
(* The event generator (Pythia) and the histogram class (Hist) are         *)
(* library code: the generator is an input (init succeeds or not, next     *)
(* succeeds or not, any event record), a histogram is the sequence of      *)
(* calls made on it (number of fills, normalisation calls and their        *)
(* argument, number of times printed).                                     *)
(***************************************************************************)
EXTENDS Integers, Sequences, FiniteSets, TLC

\* ------------------------------------------------------------- bounds
MaxSubruns == 2      \* Main:numberOfSubruns is drawn from 0..MaxSubruns
MaxEvents == 2       \* Main:numberOfEvents is drawn from 0..MaxEvents
MaxRunEv == 2        \* longest event record inside a whole run
MaxPlotsEv == 4      \* longest event record given to the plots.cc event body
MaxZEv == 3          \* longest event record given to the zplot.cc event body

\* ---------------------------------------------------- program constants
stringMass == 500    \* zplot.cc: double stringMass = 500
SizeMod == 1073741824 \* modulus of size_t arithmetic (stands for 2^64)

\* status codes an event record is built from: string hadrons from either
\* end (83, 84), a decayed one (-83), joining-step hadrons (1216, -1216),
\* and a non-hadron (23, the injected quark).
StatusVals == {83, -83, 84, 1216, -1216, 23}
\* forward light-cone momenta e() + pz() of a record
PPosVals == {100, 150, 250}

PlotsHists == {"dNdy", "deltayReg", "deltayJoin", "massReg", "massJoin"}
ZHists == {"dndy", "dpTdy", "histZ", "histZ1", "histZ2", "histZ3", "histZ4",
           "histZ5", "histZ6", "histZLast", "histZMid"}
HistNames(p) == IF p = "plots" THEN PlotsHists ELSE ZHists

VARIABLES prog, nSubruns, nEvents, iRun, iEvent, pc, exitCode, initOK,
          eventSuccess, hist, event, scan

vars == <<prog, nSubruns, nEvents, iRun, iEvent, pc, exitCode, initOK,
          eventSuccess, hist, event, scan>>

\* ------------------------------------------------------------ helpers
Abs(x) == IF x < 0 THEN -x ELSE x

SeqsUpTo(S, n) == UNION {[1..m -> S] : m \in 0..n}

RECURSIVE SumSeq(_)
SumSeq(s) == IF s = <<>> THEN 0 ELSE Head(s) + SumSeq(Tail(s))

\* event records: status() and e() + pz()
Rec(s, p) == [status |-> s, pPos |-> p]

\* plots.cc never reads e() or pz(): its records carry one momentum value.
PlotsEvents(n) == SeqsUpTo({Rec(s, 100) : s \in StatusVals}, n)
ZEvents(n) == SeqsUpTo({Rec(s, p) : s \in StatusVals, p \in PPosVals}, n)
\* inside a whole run only the fill counts are kept, which no momentum changes
RunEvents == PlotsEvents(MaxRunEv)

NoFills(p) == [h \in HistNames(p) |-> 0]
Bump(f, names) == [h \in DOMAIN f |-> IF h \in names THEN f[h] + 1 ELSE f[h]]

\* ------------------------------------------------- plots.cc event body
\* plots.cc:77  status == 1216 || (status > 80 && status < 90), on status()
IsPrimaryPlots(s) == s = 1216 \/ (s > 80 /\ s < 90)

\* plots.cc:74-85  indices (0-based) of the selected records, in record order
RECURSIVE PrimaryFrom(_, _)
PrimaryFrom(ev, i) ==
  IF i >= Len(ev) THEN <<>>
  ELSE (IF IsPrimaryPlots(ev[i + 1].status)
          THEN <<[idx |-> i, join |-> ev[i + 1].status = 1216]>>
          ELSE <<>>) \o PrimaryFrom(ev, i + 1)

\* plots.cc:88  primary.size() - 1 on size_t
LoopBound(k) == (k - 1) % SizeMod

\* the comparison written against size() - 1: the last pair is never recognised
IsLastPairOffByOne(i, k) == i = (k - 1) % SizeMod

\* plots.cc:96  i == primary.size() - 2 on size_t
IsLastPair(i, k) == i = (k - 2) % SizeMod

\* plots.cc:89-100  the branch taken for the pair (i, i+1), 0-based i, both in range
Bucket(ev, primary, i) ==
  LET status == ev[primary[i + 1].idx + 1].status
      next == ev[primary[i + 2].idx + 1].status
  IN  IF status = 1216 \/ next = 1216 THEN "Joining"
      ELSE IF i = 0 THEN "Excluded"
      ELSE IF IsLastPair(i, Len(primary)) THEN "Excluded"
      ELSE "Regular"

\* outcomes of the iteration that reads primary[] outside the vector
PlotsUB == {"crash", "Joining", "Regular", "Excluded"}

\* plots.cc:88-101  the loop from index i on. An iteration that reads outside
\* primary is undefined: the process dies there, before (ub = "crash") or after
\* having taken one of the three branches on the value it read.
RECURSIVE SpacingLoop(_, _, _, _)
SpacingLoop(ev, primary, i, ub) ==
  LET k == Len(primary) IN
  IF ~(i < LoopBound(k))
    THEN [samples |-> <<>>, oob |-> {}, crashed |-> FALSE]
  ELSE IF i + 1 >= k
    THEN [samples |-> IF ub = "crash" THEN <<>>
                      ELSE <<[i |-> i, bucket |-> ub]>>,
          oob |-> {j \in {i, i + 1} : j >= k},
          crashed |-> TRUE]
  ELSE LET rest == SpacingLoop(ev, primary, i + 1, ub)
       IN  [rest EXCEPT !.samples = <<[i |-> i, bucket |-> Bucket(ev, primary, i)]>> \o @]

\* plots.cc:80-81  the selected records with status == 1216
NumJoin(primary) == Cardinality({j \in 1..Len(primary) : primary[j].join})

\* plots.cc:93, 99  the iterations that took the branch b
NumBucket(samples, b) == Cardinality({j \in 1..Len(samples) : samples[j].bucket = b})

\* plots.cc:72-101  one event: selection with its fills, then the spacing loop
AnalysePlots(ev, ub) ==
  LET primary == PrimaryFrom(ev, 0)
      sp == SpacingLoop(ev, primary, 0, ub)
      nJoin == NumJoin(primary)
  IN  [primary |-> primary,
       samples |-> sp.samples,
       oob |-> sp.oob,
       crashed |-> sp.crashed,
       fills |-> [h \in PlotsHists |->
                    CASE h = "dNdy" -> Len(primary)
                      [] h = "massJoin" -> nJoin
                      [] h = "massReg" -> Len(primary) - nJoin
                      [] h = "deltayJoin" -> NumBucket(sp.samples, "Joining")
                      [] h = "deltayReg" -> NumBucket(sp.samples, "Regular")],
       ranked |-> <<>>,
       rem |-> <<>>,
       iRank |-> 0,
       pPosTot |-> stringMass]

\* ------------------------------------------------- zplot.cc event body
\* zplot.cc:102-104  statusAbs() > 80 && statusAbs() < 90
IsPrimaryZ(s) == Abs(s) > 80 /\ Abs(s) < 90

\* zplot.cc:105  event[i].status() == 83
IsRankedZ(s) == s = 83

\* zplot.cc:110  event[i+1].statusAbs() == 1216
IsJoinNext(s) == Abs(s) = 1216

\* zplot.cc:110-119  the histograms filled besides histZ
Route(iRank, look) ==
  IF look = "join" THEN {"histZLast"}
  ELSE (IF iRank # 1 THEN {"histZMid"} ELSE {})
       \cup (IF iRank = 1 THEN {"histZ1"}
             ELSE IF iRank = 2 THEN {"histZ2"}
             ELSE IF iRank = 3 THEN {"histZ3"}
             ELSE IF iRank = 4 THEN {"histZ4"}
             ELSE IF iRank = 5 THEN {"histZ5"}
             ELSE IF iRank = 6 THEN {"histZ6"}
             ELSE {})

\* outcomes of reading event[i+1] with i+1 == event.size(): the read ends the
\* process, or yields a record whose status is 1216 in magnitude, or is not.
ZUB == {"crash", "join", "other"}

\* the update of pPosTot left out: every z+ is taken against the full string
RemainingNotUpdated(pPosTot, pPos) == pPosTot

\* zplot.cc:121  pPosTot -= pPos
Remaining(pPosTot, pPos) == pPosTot - pPos

\* zplot.cc:100-127  the loop body for record i (0-based) on the loop state st
ZStep(ev, i, st, ub) ==
  LET p == ev[i + 1] IN
  IF ~IsPrimaryZ(p.status) THEN [st EXCEPT !.rem = Append(@, st.pPosTot)]
  ELSE IF ~IsRankedZ(p.status)
    THEN [st EXCEPT !.fills = Bump(@, {"dndy", "dpTdy"}),
                    !.primary = Append(@, [idx |-> i, join |-> FALSE]),
                    !.rem = Append(@, st.pPosTot)]
  ELSE
    LET iRank == st.iRank + 1
        pPos == p.pPos
        look == IF i + 1 < Len(ev)
                  THEN (IF IsJoinNext(ev[i + 2].status) THEN "join" ELSE "other")
                  ELSE ub
        oob == IF i + 1 < Len(ev) THEN st.oob ELSE st.oob \cup {i + 1}
    IN  IF look = "crash"
          THEN [st EXCEPT !.iRank = iRank,
                          !.fills = Bump(@, {"histZ"}),
                          !.ranked = Append(@, [idx |-> i, rank |-> iRank,
                                                zNum |-> pPos, zDen |-> st.pPosTot,
                                                filled |-> {"histZ"}]),
                          !.oob = oob,
                          !.crashed = TRUE]
          ELSE [st EXCEPT !.iRank = iRank,
                          !.pPosTot = Remaining(st.pPosTot, pPos),
                          !.fills = Bump(Bump(Bump(@, {"histZ"}), Route(iRank, look)),
                                         {"dndy", "dpTdy"}),
                          !.ranked = Append(@, [idx |-> i, rank |-> iRank,
                                                zNum |-> pPos, zDen |-> st.pPosTot,
                                                filled |-> {"histZ"} \cup Route(iRank, look)]),
                          !.primary = Append(@, [idx |-> i, join |-> FALSE]),
                          !.rem = Append(@, Remaining(st.pPosTot, pPos)),
                          !.oob = oob]

RECURSIVE ZLoop(_, _, _, _)
ZLoop(ev, i, st, ub) ==
  IF i >= Len(ev) \/ st.crashed THEN st
  ELSE ZLoop(ev, i + 1, ZStep(ev, i, st, ub), ub)

\* zplot.cc:98-128  one event: pPosTot = stringMass, iRank = 0, then the loop
AnalyseZ(ev, ub) ==
  ZLoop(ev, 0,
        [primary |-> <<>>, samples |-> <<>>, oob |-> {}, crashed |-> FALSE,
         fills |-> NoFills("zplot"), ranked |-> <<>>, rem |-> <<>>,
         iRank |-> 0, pPosTot |-> stringMass],
        ub)

Analyse(p, ev, ub) == IF p = "plots" THEN AnalysePlots(ev, ub) ELSE AnalyseZ(ev, ub)
UBOutcomes(p) == IF p = "plots" THEN PlotsUB ELSE ZUB

\* ------------------------------------------------------------ histograms
NoHists == [h \in {} |-> 0]

\* the histograms declared outside the subrun loop: a later subrun keeps
\* filling the ones the earlier subrun normalised
BookOnce(p) ==
  IF DOMAIN hist = {}
    THEN [h \in HistNames(p) |->
            [entries |-> 0, norm |-> 0, kind |-> "none", normArg |-> -1,
             printed |-> 0]]
    ELSE hist

\* plots.cc:48-53, zplot.cc:67-79  freshly booked histograms
Book(p) == [h \in HistNames(p) |->
              [entries |-> 0, norm |-> 0, kind |-> "none", normArg |-> -1,
               printed |-> 0]]

AddFills(hs, fills) == [h \in DOMAIN hs |-> [hs[h] EXCEPT !.entries = @ + fills[h]]]

\* plots.cc:105-109, zplot.cc:132-142  which call each histogram gets
NormKind(p, h) ==
  IF p = "plots" /\ h # "dNdy" THEN "integral" ELSE "spectrum"

\* normalising by the number of events that were generated
SpectrumArgDone(n, i) == i

\* the argument of normalizeSpectrum: the configured number of events
SpectrumArg(n, i) == n

Normalised(p, hs, n, i) ==
  [h \in DOMAIN hs |->
     [hs[h] EXCEPT !.norm = @ + 1,
                   !.kind = NormKind(p, h),
                   !.normArg = IF NormKind(p, h) = "spectrum"
                                 THEN SpectrumArg(n, i) ELSE -1]]

Printed(hs) == [h \in DOMAIN hs |-> [hs[h] EXCEPT !.printed = @ + 1]]

NoScan == [primary |-> <<>>, samples |-> <<>>, oob |-> {}, crashed |-> FALSE,
           fills |-> [h \in {} |-> 0], ranked |-> <<>>, rem |-> <<>>,
           iRank |-> 0, pPosTot |-> stringMass]

\* ------------------------------------------------------------ whole runs
Init ==
  /\ prog \in {"plots", "zplot"}
  /\ nSubruns \in (IF prog = "plots" THEN 0..MaxSubruns ELSE {1})
  /\ nEvents \in (IF prog = "plots" THEN 0..MaxEvents ELSE {MaxEvents})
  /\ iRun = 1
  /\ iEvent = 0
  /\ pc = "init"
  /\ exitCode = -1
  /\ initOK = TRUE
  /\ eventSuccess = TRUE
  /\ hist = NoHists
  /\ event = <<>>
  /\ scan = NoScan

\* plots.cc:39-53, zplot.cc:61-79  pythia.init() succeeds; histograms are booked
InitOK ==
  /\ pc = "init"
  /\ iRun <= nSubruns
  /\ initOK' = TRUE
  /\ hist' = Book(prog)
  /\ iEvent' = 0
  /\ eventSuccess' = TRUE
  /\ pc' = "loop"
  /\ UNCHANGED <<prog, nSubruns, nEvents, iRun, exitCode, event, scan>>

\* a failed init that only skips the subrun (continue instead of return 1)
InitFailSkips ==
  /\ pc = "init"
  /\ iRun <= nSubruns
  /\ initOK' = FALSE
  /\ iRun' = iRun + 1
  /\ UNCHANGED <<prog, nSubruns, nEvents, iEvent, pc, exitCode, eventSuccess, hist, event, scan>>

\* plots.cc:45, zplot.cc:64  if (!pythia.init()) return 1
InitFail ==
  /\ pc = "init"
  /\ iRun <= nSubruns
  /\ initOK' = FALSE
  /\ pc' = "exit1"
  /\ exitCode' = 1
  /\ UNCHANGED <<prog, nSubruns, nEvents, iRun, iEvent, eventSuccess, hist, event, scan>>

\* plots.cc:56-102, zplot.cc:82-129  one iteration with pythia.next() true
NextEvent ==
  /\ pc = "loop"
  /\ iEvent < nEvents
  /\ \E ev \in RunEvents, ub \in UBOutcomes(prog) :
       LET r == Analyse(prog, ev, ub) IN
         /\ hist' = AddFills(hist, r.fills)
         /\ pc' = IF r.crashed THEN "crashed" ELSE "loop"
         /\ iEvent' = IF r.crashed THEN iEvent ELSE iEvent + 1
  /\ UNCHANGED <<prog, initOK, nSubruns, nEvents, iRun, exitCode, eventSuccess, event, scan>>

\* plots.cc:66-70, zplot.cc:92-95  pythia.next() false: break
GenFail ==
  /\ pc = "loop"
  /\ iEvent < nEvents
  /\ eventSuccess' = FALSE
  /\ pc' = "norm"
  /\ UNCHANGED <<prog, initOK, nSubruns, nEvents, iRun, iEvent, exitCode, hist, event, scan>>

\* plots.cc:56, zplot.cc:82  iEvent < nEvents is false
LoopEnd ==
  /\ pc = "loop"
  /\ iEvent >= nEvents
  /\ pc' = "norm"
  /\ UNCHANGED <<prog, initOK, nSubruns, nEvents, iRun, iEvent, exitCode, eventSuccess, hist, event, scan>>

\* plots.cc:105-109, zplot.cc:132-142
Normalise ==
  /\ pc = "norm"
  /\ hist' = Normalised(prog, hist, nEvents, iEvent)
  /\ pc' = "print"
  /\ UNCHANGED <<prog, initOK, nSubruns, nEvents, iRun, iEvent, exitCode, eventSuccess, event, scan>>

\* plots.cc:112-114, zplot.cc:145-163  output, then the next subrun if any
PrintHists ==
  /\ pc = "print"
  /\ hist' = Printed(hist)
  /\ iRun' = iRun + 1
  /\ pc' = "init"
  /\ UNCHANGED <<prog, initOK, nSubruns, nEvents, iEvent, exitCode, eventSuccess, event, scan>>

\* plots.cc:117, zplot.cc:165  return 0
Finish ==
  /\ pc = "init"
  /\ iRun > nSubruns
  /\ pc' = "done"
  /\ exitCode' = 0
  /\ UNCHANGED <<prog, initOK, nSubruns, nEvents, iRun, iEvent, eventSuccess, hist, event, scan>>

Next == InitOK \/ InitFail \/ NextEvent \/ GenFail \/ LoopEnd \/ Normalise
          \/ PrintHists \/ Finish

Spec == Init /\ [][Next]_vars

\* ------------------------------------------- the event body on one event
InitEvent ==
  /\ prog \in {"plots", "zplot"}
  /\ nSubruns = 1
  /\ nEvents = 1
  /\ iRun = 1
  /\ iEvent = 0
  /\ pc = "event"
  /\ exitCode = -1
  /\ initOK = TRUE
  /\ eventSuccess = TRUE
  /\ hist = NoHists
  /\ event \in (IF prog = "plots" THEN PlotsEvents(MaxPlotsEv) ELSE ZEvents(MaxZEv))
  /\ scan = NoScan

\* plots.cc:72-101 applied to the event
ScanPlots ==
  /\ pc = "event"
  /\ prog = "plots"
  /\ \E ub \in PlotsUB : scan' = AnalysePlots(event, ub)
  /\ pc' = IF scan'.crashed THEN "crashed" ELSE "scanned"
  /\ UNCHANGED <<prog, initOK, nSubruns, nEvents, iRun, iEvent, exitCode, eventSuccess, hist, event>>

\* zplot.cc:98-128 applied to the event
ScanZ ==
  /\ pc = "event"
  /\ prog = "zplot"
  /\ \E ub \in ZUB : scan' = AnalyseZ(event, ub)
  /\ pc' = IF scan'.crashed THEN "crashed" ELSE "scanned"
  /\ UNCHANGED <<prog, initOK, nSubruns, nEvents, iRun, iEvent, exitCode, eventSuccess, hist, event>>

NextScan == ScanPlots \/ ScanZ

SpecEvent == InitEvent /\ [][NextScan]_vars

\* ============================================================ properties
Scanned == pc \in {"scanned", "crashed"}

\* the selection as the specification words it: magnitude of the status code
SpecPrimaryFlag(s) == Abs(s) = 1216
SpecIsPrimary(s) == Abs(s) = 1216 \/ (Abs(s) > 80 /\ Abs(s) < 90)

RECURSIVE SpecPrimaryFrom(_, _)
SpecPrimaryFrom(ev, i) ==
  IF i >= Len(ev) THEN <<>>
  ELSE (IF SpecIsPrimary(ev[i + 1].status)
          THEN <<[idx |-> i, join |-> SpecPrimaryFlag(ev[i + 1].status)]>>
          ELSE <<>>) \o SpecPrimaryFrom(ev, i + 1)

RapidityHist == IF prog = "plots" THEN "dNdy" ELSE "dndy"

\* C1: the records selected as primary hadrons are exactly those with
\* |status| = 1216 or 80 < |status| < 90, in record order, flagged joining
\* exactly for |status| = 1216, and each fills the rapidity-density histogram
\* once.
C1_Selection ==
  pc = "scanned" =>
    /\ scan.primary = SpecPrimaryFrom(event, 0)
    /\ scan.fills[RapidityHist] = Len(SpecPrimaryFrom(event, 0))

\* C2: with k primary hadrons the spacing pass runs k-1 iterations, none
\* for k < 2, reads no position outside 0..k-1 and fills no delta-y
\* histogram when k < 2.
C2_SpacingPairs ==
  (Scanned /\ prog = "plots") =>
    LET k == Len(scan.primary) IN
      /\ Len(scan.samples) = (IF k < 2 THEN 0 ELSE k - 1)
      /\ scan.oob = {}
      /\ (k < 2 => scan.fills["deltayJoin"] + scan.fills["deltayReg"] = 0)

\* the bucket rule as the specification words it, for pair (i, i+1) of k
SpecBucket(ev, primary, i) ==
  LET k == Len(primary)
      a == ev[primary[i + 1].idx + 1].status
      b == ev[primary[i + 2].idx + 1].status
  IN  IF SpecPrimaryFlag(a) \/ SpecPrimaryFlag(b) THEN "Joining"
      ELSE IF i = 0 \/ i = k - 2 THEN "Excluded"
      ELSE "Regular"

PairIndices == {j \in 0..(Len(scan.primary) - 2) : TRUE}
SpecBucketCount(b) ==
  Cardinality({i \in PairIndices : SpecBucket(event, scan.primary, i) = b})

\* C3: every pair (i, i+1) of the filtered list is bucketed once: Joining if
\* either element is a joining-step hadron, else Excluded if i is the first
\* or last pair index, else Regular; Joining pairs fill deltayJoin, Regular
\* pairs fill deltayReg, Excluded pairs fill nothing.
C3_Buckets ==
  (Scanned /\ prog = "plots") =>
    /\ \A i \in PairIndices :
         /\ Cardinality({j \in 1..Len(scan.samples) : scan.samples[j].i = i}) = 1
         /\ scan.samples[i + 1] = [i |-> i, bucket |-> SpecBucket(event, scan.primary, i)]
    /\ (scan.oob = {} =>
          /\ scan.fills["deltayJoin"] = SpecBucketCount("Joining")
          /\ scan.fills["deltayReg"] = SpecBucketCount("Regular"))

\* four primary hadrons, none joining, with another record between them:
\* the pairs come out as Excluded, Regular, Excluded
C3_Witness ==
  /\ prog = "plots"
  /\ pc = "scanned"
  /\ Len(scan.primary) = 4
  /\ \A j \in 1..4 : ~scan.primary[j].join
  /\ [j \in 1..3 |-> scan.samples[j].bucket] = <<"Excluded", "Regular", "Excluded">>
  /\ scan.fills["deltayReg"] = 1
  /\ scan.fills["deltayJoin"] = 0

\* indices (0-based) of the records whose status satisfies P
IdxWhere(ev, P(_)) ==
  LET Hit(i) == P(ev[i + 1].status)
  IN  SelectSeq([j \in 1..Len(ev) |-> j - 1], Hit)

PPosOf(ev, idxs) == [n \in 1..Len(idxs) |-> ev[idxs[n] + 1].pPos]

\* ranks 1..n and z+ = pPos / (stringMass - pPos of the earlier ranked ones),
\* for the ranked log against the indices idxs
RanksAre(idxs) ==
  /\ Len(scan.ranked) = Len(idxs)
  /\ \A n \in 1..Len(idxs) :
       /\ scan.ranked[n].idx = idxs[n]
       /\ scan.ranked[n].rank = n
       /\ scan.ranked[n].zNum = event[idxs[n] + 1].pPos
       /\ scan.ranked[n].zDen =
            stringMass - SumSeq(SubSeq(PPosOf(event, idxs), 1, n - 1))

\* remaining after each record processed: lowered by pPos at the records
\* whose status satisfies P, unchanged at the others
RemainingFollows(P(_)) ==
  \A j \in 1..Len(scan.rem) :
    scan.rem[j] = (IF j = 1 THEN stringMass ELSE scan.rem[j - 1])
                    - (IF P(event[j].status) THEN event[j].pPos ELSE 0)

SpecClass(ev, e) ==
  IF e.idx + 1 < Len(ev) /\ Abs(ev[e.idx + 2].status) = 1216 THEN "last"
  ELSE IF e.rank = 1 THEN "first"
  ELSE "mid"

SpecFilled(ev, e) ==
  {"histZ"} \cup
    (CASE SpecClass(ev, e) = "last" -> {"histZLast"}
       [] SpecClass(ev, e) = "first" -> {"histZ1"}
       [] SpecClass(ev, e) = "mid" ->
            {"histZMid"} \cup
              (IF e.rank = 2 THEN {"histZ2"} ELSE IF e.rank = 3 THEN {"histZ3"}
               ELSE IF e.rank = 4 THEN {"histZ4"} ELSE IF e.rank = 5 THEN {"histZ5"}
               ELSE IF e.rank = 6 THEN {"histZ6"} ELSE {}))

\* C9: every ranked hadron fills histZ and exactly the histograms of its
\* class (last: the record after it has |status| = 1216; else first: rank 1;
\* else mid), so that entries(histZ) = entries(histZ1) + entries(histZMid)
\* + entries(histZLast).
C9_RankClasses ==
  (Scanned /\ prog = "zplot") =>
    /\ \A n \in 1..Len(scan.ranked) :
         scan.ranked[n].filled = SpecFilled(event, scan.ranked[n])
    /\ scan.fills["histZ"] =
         scan.fills["histZ1"] + scan.fills["histZMid"] + scan.fills["histZLast"]

\* C10: the look-ahead event[i+1] is read only with i+1 < event.size().
C10_LookAheadInRange ==
  prog = "zplot" => \A j \in scan.oob : j < Len(event)

EntriesKept == \A h \in DOMAIN hist : hist'[h].entries = hist[h].entries

\* C5: a failed pythia.next() ends the event loop of the subrun: the failed
\* event and the rest of the budget fill nothing, what was accumulated stays,
\* normalizeSpectrum still gets the configured number of events, and the
\* program goes on to the next subrun.
C5_GenFailure ==
  /\ [](~eventSuccess =>
          /\ pc \in {"norm", "print", "init", "done", "exit1"}
          /\ iEvent < nEvents)
  /\ [][(eventSuccess /\ ~eventSuccess') =>
          (hist' = hist /\ iEvent' = iEvent /\ pc' = "norm")]_vars
  /\ [][(~eventSuccess /\ pc = "norm") =>
          /\ pc' = "print"
          /\ EntriesKept
          /\ \A h \in DOMAIN hist :
               /\ hist'[h].norm = 1
               /\ (hist'[h].kind = "spectrum" => hist'[h].normArg = nEvents)]_vars
  /\ [][(~eventSuccess /\ pc = "print") =>
          (pc' = "init" /\ iRun' = iRun + 1 /\ EntriesKept)]_vars
  /\ [][(~eventSuccess /\ pc = "init" /\ iRun <= nSubruns) =>
          (pc' \in {"loop", "exit1"} /\ iRun' = iRun)]_vars

\* the second of two events failed in plots.cc: the first event's fills are
\* there and dNdy was normalised with 2
C5_Witness ==
  /\ prog = "plots"
  /\ ~eventSuccess
  /\ pc = "print"
  /\ nEvents = 2
  /\ iEvent = 1
  /\ hist["dNdy"].entries >= 1
  /\ hist["dNdy"].norm = 1
  /\ hist["dNdy"].normArg = 2

\* C6: after the event loop every booked histogram is normalised exactly
\* once and then printed, nothing is filled once normalised, and the
\* histograms a subrun fills are freshly booked, never normalised ones.
C6_NormalisedOnce ==
  /\ [](pc \in {"loop", "norm", "print"} => DOMAIN hist = HistNames(prog))
  /\ [](pc \in {"loop", "norm"} =>
          \A h \in DOMAIN hist : hist[h].norm = 0 /\ hist[h].printed = 0)
  /\ [](pc = "print" =>
          \A h \in DOMAIN hist :
            /\ hist[h].norm = 1
            /\ hist[h].kind \in {"spectrum", "integral"}
            /\ hist[h].printed = 0)
  /\ []((pc \in {"init", "done", "exit1"} /\ iRun > 1) =>
          /\ DOMAIN hist = HistNames(prog)
          /\ \A h \in DOMAIN hist : hist[h].norm = 1 /\ hist[h].printed = 1)
  /\ [][\A h \in DOMAIN hist :
          hist[h].norm > 0 =>
            \/ hist'[h].entries = hist[h].entries
            \/ (hist'[h].entries = 0 /\ hist'[h].norm = 0)]_vars

\* the histograms of the second subrun of plots.cc, filled and normalised once
C6_Witness ==
  /\ prog = "plots"
  /\ iRun = 2
  /\ pc = "print"
  /\ hist["dNdy"].entries > 0
  /\ \A h \in DOMAIN hist : hist[h].norm = 1

\* C8: a failed pythia.init() ends the program with exit status 1: nothing
\* happens after it, no event, no fill, no normalisation, no output, no
\* further subrun.
C8_InitFailure ==
  /\ [](~initOK => (pc = "exit1" /\ exitCode = 1))
  /\ [](exitCode = 1 => ~initOK)
  /\ [][initOK]_vars
  /\ [][~initOK' => (hist' = hist /\ iRun' = iRun /\ iEvent' = iEvent)]_vars

\* the second subrun of plots.cc failed to initialise after the first one
\* was printed
C8_Witness ==
  /\ prog = "plots"
  /\ ~initOK
  /\ iRun = 2
  /\ pc = "exit1"
  /\ exitCode = 1
  /\ hist["dNdy"].printed = 1

====
